---------------------------- MODULE Spec2Model ----------------------------
(***************************************************************************)
(* Todo list manager: Task entity (app/models.py), in-memory store         *)
(* TaskRepository (app/repository.py) and orchestrator TaskService         *)
(* (app/service.py).                                                       *)
(*                                                                         *)
(* Text is represented by its run-length encoding: a string is a sequence  *)
(* of runs <<c, n>> (character c repeated n >= 1 times, adjacent runs      *)
(* having different characters), so that "x" * 200 is <<<<"x", 200>>>>.    *)
(* Python's None, where a str is expected, is the non-string NoneStr.      *)
(***************************************************************************)
EXTENDS Integers, Sequences, FiniteSets, TLC

\* Largest number of Task objects constructed in one run (caps the clock and
\* the ids a caller passes in).
MaxTasks == 2

\* Length limits of service.py.
MaxTitleLen == 200
MaxDescLen == 500

VARIABLES
    tasks,      \* TaskRepository._tasks: dict id -> Task
    next_id,    \* TaskRepository._next_id
    now,        \* the clock datetime.now() reads, in ticks
    last,       \* the last call made: operation, argument id, outcome, results
    issued,     \* ids returned by the successful TaskService.add_task calls, in order
    inserted,   \* ids passed to TaskRepository.add_task since construction / clear()
    pending,    \* per caller: the add_task call it is inside, with the id it read
    ui          \* TodoApp.run: where the main loop is, the menu choice, stdin at its end

vars == <<tasks, next_id, now, last, issued, inserted, pending, ui>>

---------------------------------------------------------------------------
\* Text

Whitespace == {" ", "\t", "\n", "\r"}

NoneStr == <<<<"None", 0>>>>

RECURSIVE StrLen(_)
\* len(s)
StrLen(s) == IF s = <<>> THEN 0 ELSE Head(s)[2] + StrLen(Tail(s))

RECURSIVE lstrip(_)
\* str.lstrip(): drops the leading whitespace characters.
lstrip(s) ==
    IF s # <<>> /\ Head(s)[1] \in Whitespace THEN lstrip(Tail(s)) ELSE s

RECURSIVE rstrip(_)
\* str.rstrip(): drops the trailing whitespace characters.
rstrip(s) ==
    IF s # <<>> /\ s[Len(s)][1] \in Whitespace
    THEN rstrip(SubSeq(s, 1, Len(s) - 1))
    ELSE s

\* str.strip(): drops the leading and the trailing whitespace characters.
strip(s) == rstrip(lstrip(s))

\* Python truth value of an Optional[str]: None and "" are false.
Falsy(s) == s = NoneStr \/ s = <<>>

---------------------------------------------------------------------------
\* app/models.py

INCOMPLETE == "incomplete"
COMPLETE == "complete"
TaskStatus == {INCOMPLETE, COMPLETE}

\* Task.__init__
Task(task_id, title, description, status, created_at) ==
    [id |-> task_id, title |-> title, description |-> description,
     status |-> status, created_at |-> created_at]

\* Default of Task.__init__'s status parameter.
Task_default_status_Complete == COMPLETE
Task_default_status == INCOMPLETE

\* Optional[Task] None
NoTask == Task(0, <<>>, <<>>, "none", 0)

\* update_title that also resets the status.
Task_update_title_ResetsStatus(task, new_title) ==
    [task EXCEPT !.title = new_title, !.status = INCOMPLETE]
\* update_title that leaves the title as it is.
Task_update_title_Noop(task, new_title) == task
Task_update_title(task, new_title) == [task EXCEPT !.title = new_title]
\* update_description that also stamps the task with a later time.
Task_update_description_Restamps(task, new_description) ==
    [task EXCEPT !.description = new_description, !.created_at = task.created_at + 1]
Task_update_description(task, new_description) ==
    [task EXCEPT !.description = new_description]
\* mark_complete that also stamps the task with a later time.
Task_mark_complete_Restamps(task) ==
    [task EXCEPT !.status = COMPLETE, !.created_at = task.created_at + 1]
\* mark_complete that leaves the status as it is.
Task_mark_complete_Noop(task) == task
Task_mark_complete(task) == [task EXCEPT !.status = COMPLETE]
\* mark_incomplete that rebuilds the task from its id and title.
Task_mark_incomplete_Rebuilds(task) ==
    Task(task.id, task.title, <<>>, INCOMPLETE, task.created_at)
Task_mark_incomplete(task) == [task EXCEPT !.status = INCOMPLETE]
Task_is_complete(task) == task.status = COMPLETE

\* task.id = value: id is an ordinary instance attribute (no property, no
\* __slots__, no __setattr__), so the assignment rebinds it.
Task_set_id(task, value) == [task EXCEPT !.id = value]

---------------------------------------------------------------------------
\* app/repository.py; a repository value is [tasks, next_id].

EmptyTasks == [k \in {} |-> NoTask]

Max2(a, b) == IF a >= b THEN a ELSE b

\* TaskRepository.__init__ with the counter started at 0.
repo_init_FromZero == [tasks |-> EmptyTasks, next_id |-> 0]

repo_init == [tasks |-> EmptyTasks, next_id |-> 1]

\* TaskRepository.add_task with the counter set from the number of stored tasks.
repo_add_task_CountBased(ts, nid, task) ==
    LET stored == [k \in DOMAIN ts \cup {task.id} |->
                      IF k = task.id THEN task ELSE ts[k]]
    IN  [tasks |-> stored, next_id |-> Cardinality(DOMAIN stored) + 1]

\* TaskRepository.add_task that advances the counter without storing the task.
repo_add_task_NoStore(ts, nid, task) ==
    [tasks |-> ts, next_id |-> Max2(nid, task.id + 1)]

\* TaskRepository.add_task that stores the task and leaves the counter alone.
repo_add_task_NoAdvance(ts, nid, task) ==
    [tasks |-> [k \in DOMAIN ts \cup {task.id} |->
                   IF k = task.id THEN task ELSE ts[k]],
     next_id |-> nid]

\* TaskRepository.add_task with self._next_id = task.id + 1, without the max.
repo_add_task_AlwaysSets(ts, nid, task) ==
    [tasks |-> [k \in DOMAIN ts \cup {task.id} |->
                   IF k = task.id THEN task ELSE ts[k]],
     next_id |-> task.id + 1]

\* TaskRepository.add_task that keeps the entry an id already has.
repo_add_task_KeepsFirst(ts, nid, task) ==
    [tasks |-> [k \in DOMAIN ts \cup {task.id} |->
                   IF k \in DOMAIN ts THEN ts[k] ELSE task],
     next_id |-> Max2(nid, task.id + 1)]

repo_add_task(ts, nid, task) ==
    [tasks |-> [k \in DOMAIN ts \cup {task.id} |->
                   IF k = task.id THEN task ELSE ts[k]],
     next_id |-> Max2(nid, task.id + 1)]

repo_get_task(ts, task_id) == IF task_id \in DOMAIN ts THEN ts[task_id] ELSE NoTask

RECURSIVE SortedById_Descending(_)
\* The sort with the order reversed.
SortedById_Descending(S) ==
    IF S = {} THEN <<>>
    ELSE LET t == CHOOSE x \in S : \A y \in S : x.id >= y.id
         IN  <<t>> \o SortedById_Descending(S \ {t})

RECURSIVE SortedById(_)
SortedById(S) ==
    IF S = {} THEN <<>>
    ELSE LET t == CHOOSE x \in S : \A y \in S : x.id <= y.id
         IN  <<t>> \o SortedById(S \ {t})

\* sorted(self._tasks.values(), key=lambda t: t.id)
repo_get_all_tasks(ts) == SortedById({ts[k] : k \in DOMAIN ts})

\* TaskRepository.delete_task that also hands the freed id back to the counter.
repo_delete_task_Regress(ts, nid, task_id) ==
    IF task_id \in DOMAIN ts
    THEN [tasks |-> [k \in DOMAIN ts \ {task_id} |-> ts[k]],
          next_id |-> IF task_id < nid THEN task_id ELSE nid, removed |-> TRUE]
    ELSE [tasks |-> ts, next_id |-> nid, removed |-> FALSE]

\* TaskRepository.delete_task that reports the removal without making it.
repo_delete_task_KeepsEntry(ts, nid, task_id) ==
    [tasks |-> ts, next_id |-> nid, removed |-> task_id \in DOMAIN ts]

\* TaskRepository.delete_task that drops the id and every id after it.
repo_delete_task_FromId(ts, nid, task_id) ==
    IF task_id \in DOMAIN ts
    THEN [tasks |-> [k \in {j \in DOMAIN ts : j < task_id} |-> ts[k]],
          next_id |-> nid, removed |-> TRUE]
    ELSE [tasks |-> ts, next_id |-> nid, removed |-> FALSE]

\* TaskRepository.delete_task that returns True for an absent id too.
repo_delete_task_AlwaysTrue(ts, nid, task_id) ==
    [tasks |-> [k \in DOMAIN ts \ {task_id} |-> ts[k]],
     next_id |-> nid, removed |-> TRUE]

repo_delete_task(ts, nid, task_id) ==
    IF task_id \in DOMAIN ts
    THEN [tasks |-> [k \in DOMAIN ts \ {task_id} |-> ts[k]],
          next_id |-> nid, removed |-> TRUE]
    ELSE [tasks |-> ts, next_id |-> nid, removed |-> FALSE]

\* TaskRepository.task_exists that answers from the number of stored tasks.
repo_task_exists_ByCount(ts, task_id) ==
    task_id \in 1..Cardinality(DOMAIN ts)

repo_task_exists(ts, task_id) == task_id \in DOMAIN ts

repo_get_next_id(nid) == nid

\* get_next_id that hands the id out: the counter moves on with every call.
repo_get_next_id_counter_Advances(nid) == nid + 1

\* self._next_id after get_next_id: the method only returns it.
repo_get_next_id_counter(nid) == nid

\* TaskRepository.clear that empties the mapping and keeps the counter.
repo_clear_KeepsCounter == [tasks |-> EmptyTasks, next_id |-> next_id]

repo_clear == [tasks |-> EmptyTasks, next_id |-> 1]

---------------------------------------------------------------------------
\* app/service.py: validation. A result is [ok, val, msg]; ~ok is a raised
\* ValidationError carrying msg.

Valid(v) == [ok |-> TRUE, val |-> v, msg |-> ""]
Invalid(m) == [ok |-> FALSE, val |-> <<>>, msg |-> m]

\* validate_title that returns its input untrimmed.
validate_title_NoTrim(title) ==
    IF Falsy(title) \/ Falsy(strip(title))
    THEN Invalid("Task title cannot be empty")
    ELSE IF StrLen(strip(title)) > MaxTitleLen
         THEN Invalid("Task title exceeds 200 characters")
         ELSE Valid(title)

\* validate_title with the length limit applied to the untrimmed input.
validate_title_RawLength(title) ==
    IF Falsy(title) \/ Falsy(strip(title))
    THEN Invalid("Task title cannot be empty")
    ELSE IF StrLen(title) > MaxTitleLen
         THEN Invalid("Task title exceeds 200 characters")
         ELSE Valid(strip(title))

validate_title(title) ==
    IF Falsy(title) \/ Falsy(strip(title))
    THEN Invalid("Task title cannot be empty")
    ELSE LET trimmed == strip(title)
         IN  IF StrLen(trimmed) > MaxTitleLen
             THEN Invalid("Task title exceeds 200 characters")
             ELSE Valid(trimmed)

\* validate_description that returns its input untrimmed.
validate_description_NoTrim(description) ==
    IF Falsy(description)
    THEN Valid(<<>>)
    ELSE IF StrLen(strip(description)) > MaxDescLen
         THEN Invalid("Description exceeds 500 characters")
         ELSE Valid(description)

\* validate_description with the length limit applied to the untrimmed input.
validate_description_RawLength(description) ==
    IF Falsy(description)
    THEN Valid(<<>>)
    ELSE IF StrLen(description) > MaxDescLen
         THEN Invalid("Description exceeds 500 characters")
         ELSE Valid(strip(description))

validate_description(description) ==
    IF Falsy(description)
    THEN Valid(<<>>)
    ELSE LET trimmed == strip(description)
         IN  IF StrLen(trimmed) > MaxDescLen
             THEN Invalid("Description exceeds 500 characters")
             ELSE Valid(trimmed)

---------------------------------------------------------------------------
\* Inputs

Sp == <<" ", 1>>
Tab == <<"\t", 1>>

TitleInputs ==
    { <<>>,                                   \* ""
      <<Tab, Sp>>,                            \* whitespace only
      <<Sp, <<"a", 1>>, Sp>>,                 \* " a "
      <<Sp, <<"x", MaxTitleLen>>, Tab>>,      \* 202 characters, 200 trimmed
      <<<<"x", MaxTitleLen + 1>>>> }          \* 201 characters

DescInputs ==
    { <<>>,                                   \* ""
      <<Sp, Tab>>,                            \* whitespace only
      <<Tab, <<"y", MaxDescLen>>, Sp>>,       \* 502 characters, 500 trimmed
      <<<<"y", MaxDescLen + 1>>>> }           \* 501 characters

\* The inputs that are empty or too long once trimmed, and the add calls
\* that bind and carry one.
InvalidTitleInputs == {t \in TitleInputs : StrLen(strip(t)) \notin 1..MaxTitleLen}
InvalidDescInputs == {d \in DescInputs : StrLen(strip(d)) > MaxDescLen}
InvalidAddCalls ==
    {[title |-> t] : t \in InvalidTitleInputs}
    \cup {[title |-> t, description |-> d] : t \in InvalidTitleInputs, d \in DescInputs}
    \cup {[title |-> t, description |-> d] : t \in TitleInputs, d \in InvalidDescInputs}

\* Titles of the orchestrator calls made next to direct use of the store.
StoreTitleInputs == { <<>>, <<Sp, <<"a", 1>>, Sp>> }

\* validate_title and validate_description on every input a call can pass,
\* evaluated once.
title_checked ==
    [t \in TitleInputs \cup {NoneStr}
           \cup {validate_title(u).val : u \in {v \in TitleInputs : validate_title(v).ok}}
        |-> validate_title(t)]
description_checked ==
    [d \in DescInputs \cup {NoneStr}
           \cup {validate_description(u).val :
                    u \in {v \in DescInputs : validate_description(v).ok}}
        |-> validate_description(d)]

\* Ids a caller passes: 0 is never stored.
IdInputs == 0..MaxTasks

\* Keyword arguments of a TaskService.add_task call.
AddCalls ==
    {[title |-> t] : t \in TitleInputs}
    \cup {[title |-> t, description |-> d] : t \in TitleInputs, d \in DescInputs}
    \cup {[title |-> t, status |-> s] : t \in TitleInputs, s \in TaskStatus}

---------------------------------------------------------------------------
\* Callers of TaskService.add_task on one service object. A caller inside
\* add_task holds the validated title and the id it read from get_next_id.

Callers == {"A", "B"}
Outside == [pc |-> "outside", new_id |-> 0, title |-> <<>>]
NoPending == [c \in Callers |-> Outside]

---------------------------------------------------------------------------
\* TodoApp.run: pc is "menu" in get_menu_choice, "action" from the return of
\* get_menu_choice to the end of the try statement, "exited" after the break
\* and "crashed" when an exception has left run. shown is what the except
\* clauses printed for the last action; eof says that stdin is at its end.

AtMenu == [pc |-> "menu", choice |-> 0, eof |-> FALSE, shown |-> ""]

---------------------------------------------------------------------------
\* The record of a call

Call(op, task_id, outcome, msg, task, changed) ==
    [op |-> op, task_id |-> task_id, outcome |-> outcome, msg |-> msg,
     task |-> task, changed |-> changed, listing |-> <<>>, stats |-> <<>>]

NotFound(op, task_id) ==
    Call(op, task_id, "TaskNotFoundError", "not found", NoTask, FALSE)

\* validate_task_id that accepts every id already handed out, stored or not.
validate_task_id_AcceptsIssued(ts, task_id) ==
    repo_task_exists(ts, task_id) \/ (task_id >= 1 /\ task_id < next_id)

\* validate_task_id that never raises.
validate_task_id_NeverRaises(ts, task_id) == TRUE

\* TaskService.validate_task_id raises TaskNotFoundError
validate_task_id(ts, task_id) == repo_task_exists(ts, task_id)

Init ==
    /\ tasks = repo_init.tasks
    /\ next_id = repo_init.next_id
    /\ now = 0
    /\ last = Call("init", 0, "ok", "", NoTask, FALSE)
    /\ issued = <<>>
    /\ inserted = {}
    /\ pending = NoPending
    /\ ui = AtMenu

---------------------------------------------------------------------------
\* app/service.py: operations

\* Parameters of TaskService.add_task (self aside) and the default of description.
add_task_params == {"title", "description"}
add_task_default_description == <<>>

\* TaskService.add_task taking the new id from the number of stored tasks.
add_task_new_id_FromCount(ts, nid) == Cardinality(DOMAIN ts) + 1
\* TaskService.add_task taking the lowest id no stored task holds.
add_task_new_id_LowestFree(ts, nid) ==
    CHOOSE k \in 1..nid : k \notin DOMAIN ts /\ \A j \in 1..(k - 1) : j \in DOMAIN ts
\* task_id=self.repo.get_next_id()
add_task_new_id(ts, nid) == repo_get_next_id(nid)

\* service.add_task that takes the id from the counter, and advances it,
\* before it validates.
add_task_ConsumesId(args) ==
    IF ~(DOMAIN args \subseteq add_task_params) \/ "title" \notin DOMAIN args
    THEN /\ last' = Call("add_task", 0, "TypeError",
                         "unexpected keyword argument", NoTask, FALSE)
         /\ UNCHANGED <<tasks, next_id, now, issued, inserted, pending, ui>>
    ELSE LET description == IF "description" \in DOMAIN args
                            THEN args.description
                            ELSE add_task_default_description
             vt == title_checked[args.title]
             vd == description_checked[description]
         IN  IF ~vt.ok \/ ~vd.ok
             THEN /\ next_id <= MaxTasks
                  /\ next_id' = next_id + 1
                  /\ last' = Call("add_task", 0, "ValidationError",
                                  IF ~vt.ok THEN vt.msg ELSE vd.msg, NoTask, FALSE)
                  /\ UNCHANGED <<tasks, now, issued, inserted, pending, ui>>
             ELSE LET task == Task(add_task_new_id(tasks, next_id), vt.val, vd.val,
                                   Task_default_status, now + 1)
                      r == repo_add_task(tasks, next_id, task)
                  IN  /\ now < MaxTasks
                      /\ now' = now + 1
                      /\ tasks' = r.tasks
                      /\ next_id' = r.next_id
                      /\ issued' = Append(issued, task.id)
                      /\ inserted' = inserted \cup {task.id}
                      /\ last' = Call("add_task", task.id, "ok", "", task, FALSE)
                      /\ UNCHANGED <<pending, ui>>

\* service.add_task(**args)
add_task(args) ==
    IF ~(DOMAIN args \subseteq add_task_params) \/ "title" \notin DOMAIN args
    THEN \* the call does not bind to the signature
         /\ last' = Call("add_task", 0, "TypeError",
                         "unexpected keyword argument", NoTask, FALSE)
         /\ UNCHANGED <<tasks, next_id, now, issued, inserted, pending, ui>>
    ELSE LET description == IF "description" \in DOMAIN args
                            THEN args.description
                            ELSE add_task_default_description
             vt == title_checked[args.title]
             vd == description_checked[description]
         IN  IF ~vt.ok
             THEN /\ last' = Call("add_task", 0, "ValidationError", vt.msg, NoTask, FALSE)
                  /\ UNCHANGED <<tasks, next_id, now, issued, inserted, pending, ui>>
             ELSE IF ~vd.ok
             THEN /\ last' = Call("add_task", 0, "ValidationError", vd.msg, NoTask, FALSE)
                  /\ UNCHANGED <<tasks, next_id, now, issued, inserted, pending, ui>>
             ELSE LET task == Task(add_task_new_id(tasks, next_id), vt.val, vd.val,
                                   Task_default_status, now + 1)
                      r == repo_add_task(tasks, next_id, task)
                  IN  /\ now < MaxTasks
                      /\ now' = now + 1
                      /\ tasks' = r.tasks
                      /\ next_id' = r.next_id
                      /\ issued' = Append(issued, task.id)
                      /\ inserted' = inserted \cup {task.id}
                      /\ last' = Call("add_task", task.id, "ok", "", task, FALSE)
                      /\ UNCHANGED <<pending, ui>>

get_all_tasks ==
    /\ last' = [Call("get_all_tasks", 0, "ok", "", NoTask, FALSE)
                   EXCEPT !.listing = repo_get_all_tasks(tasks)]
    /\ UNCHANGED <<tasks, next_id, now, issued, inserted, pending, ui>>

get_task(task_id) ==
    /\ last' = IF ~validate_task_id(tasks, task_id)
               THEN NotFound("get_task", task_id)
               ELSE Call("get_task", task_id, "ok", "", repo_get_task(tasks, task_id), FALSE)
    /\ UNCHANGED <<tasks, next_id, now, issued, inserted, pending, ui>>

\* if validated_title != task.title, answering yes for every provided title.
title_differs_Always(validated_title, task) == TRUE
\* if validated_title != task.title
title_differs(validated_title, task) == validated_title # task.title

\* if validated_description != task.description, comparing with the title.
description_differs_ComparesTitle(validated_description, task) ==
    validated_description # task.title
\* if validated_description != task.description
description_differs(validated_description, task) ==
    validated_description # task.description

\* if new_... is not None, written as a truth test: "" counts as no change.
update_provided_Truthy(argument) == ~Falsy(argument)
\* if new_title is not None / if new_description is not None
update_provided(argument) == argument # NoneStr

\* new_title / new_description: NoneStr is the "no change" None.
update_task(task_id, new_title, new_description) ==
    IF ~validate_task_id(tasks, task_id)
    THEN /\ last' = NotFound("update_task", task_id)
         /\ UNCHANGED <<tasks, next_id, now, issued, inserted, pending, ui>>
    ELSE LET task0 == repo_get_task(tasks, task_id)
             vt == title_checked[new_title]
             titleRaises == update_provided(new_title) /\ ~vt.ok
             titleWrites == update_provided(new_title) /\ vt.ok
                               /\ title_differs(vt.val, task0)
             task1 == IF titleWrites THEN Task_update_title(task0, vt.val) ELSE task0
             vd == description_checked[new_description]
             descRaises == update_provided(new_description) /\ ~vd.ok
             descWrites == update_provided(new_description) /\ vd.ok
                              /\ description_differs(vd.val, task1)
             task2 == IF descWrites THEN Task_update_description(task1, vd.val)
                      ELSE task1
         IN  /\ UNCHANGED <<next_id, now, issued, inserted, pending, ui>>
             /\ IF titleRaises
                THEN /\ tasks' = tasks
                     /\ last' = Call("update_task", task_id, "ValidationError",
                                     vt.msg, NoTask, FALSE)
                ELSE IF descRaises
                THEN \* the title was already written to the stored object
                     /\ tasks' = [tasks EXCEPT ![task_id] = task1]
                     /\ last' = Call("update_task", task_id, "ValidationError",
                                     vd.msg, NoTask, FALSE)
                ELSE /\ tasks' = [tasks EXCEPT ![task_id] = task2]
                     /\ last' = Call("update_task", task_id, "ok", "", task2,
                                     titleWrites \/ descWrites)

delete_task(task_id) ==
    IF ~validate_task_id(tasks, task_id)
    THEN /\ last' = NotFound("delete_task", task_id)
         /\ UNCHANGED <<tasks, next_id, now, issued, inserted, pending, ui>>
    ELSE LET task == repo_get_task(tasks, task_id)
             r == repo_delete_task(tasks, next_id, task_id)
         IN  /\ tasks' = r.tasks
             /\ next_id' = r.next_id
             /\ last' = Call("delete_task", task_id, "ok", "", task, FALSE)
             /\ UNCHANGED <<now, issued, inserted, pending, ui>>

\* The guard of mark_complete with the test left out.
mark_complete_rejects_Never(task) == FALSE
\* if task.is_complete(): raise ValidationError
mark_complete_rejects(task) == Task_is_complete(task)

mark_complete(task_id) ==
    IF ~validate_task_id(tasks, task_id)
    THEN /\ last' = NotFound("mark_complete", task_id)
         /\ UNCHANGED <<tasks, next_id, now, issued, inserted, pending, ui>>
    ELSE LET task == repo_get_task(tasks, task_id)
         IN  /\ UNCHANGED <<next_id, now, issued, inserted, pending, ui>>
             /\ IF mark_complete_rejects(task)
                THEN /\ tasks' = tasks
                     /\ last' = Call("mark_complete", task_id, "ValidationError",
                                     "Task is already complete", NoTask, FALSE)
                ELSE /\ tasks' = [tasks EXCEPT ![task_id] = Task_mark_complete(task)]
                     /\ last' = Call("mark_complete", task_id, "ok", "",
                                     Task_mark_complete(task), FALSE)

mark_incomplete(task_id) ==
    IF ~validate_task_id(tasks, task_id)
    THEN /\ last' = NotFound("mark_incomplete", task_id)
         /\ UNCHANGED <<tasks, next_id, now, issued, inserted, pending, ui>>
    ELSE LET task == repo_get_task(tasks, task_id)
         IN  /\ UNCHANGED <<next_id, now, issued, inserted, pending, ui>>
             /\ IF ~Task_is_complete(task)
                THEN /\ tasks' = tasks
                     /\ last' = Call("mark_incomplete", task_id, "ValidationError",
                                     "Task is already incomplete", NoTask, FALSE)
                ELSE /\ tasks' = [tasks EXCEPT ![task_id] = Task_mark_incomplete(task)]
                     /\ last' = Call("mark_incomplete", task_id, "ok", "",
                                     Task_mark_incomplete(task), FALSE)

\* get_statistics with remaining not reduced by the completed tasks.
get_statistics_of_RemainingIsTotal(ts) ==
    LET listing == repo_get_all_tasks(ts)
        total == Len(listing)
        completed == Cardinality({i \in 1..Len(listing) : Task_is_complete(listing[i])})
    IN  <<total, completed, total>>

\* total, completed, remaining
get_statistics_of(ts) ==
    LET listing == repo_get_all_tasks(ts)
        total == Len(listing)
        completed == Cardinality({i \in 1..Len(listing) : Task_is_complete(listing[i])})
    IN  <<total, completed, total - completed>>

get_statistics ==
    /\ last' = [Call("get_statistics", 0, "ok", "", NoTask, FALSE)
                   EXCEPT !.stats = get_statistics_of(tasks)]
    /\ UNCHANGED <<tasks, next_id, now, issued, inserted, pending, ui>>

\* Arguments of an update of task_id: the inputs, None, and the value the
\* task holds now.
UpdateTitles(task_id) ==
    TitleInputs \cup {NoneStr}
    \cup (IF task_id \in DOMAIN tasks THEN {tasks[task_id].title} ELSE {})
UpdateDescriptions(task_id) ==
    DescInputs \cup {NoneStr}
    \cup (IF task_id \in DOMAIN tasks THEN {tasks[task_id].description} ELSE {})

\* The orchestrator's operations, the only surface the front end calls.
Next ==
    \/ \E args \in AddCalls : add_task(args)
    \/ get_all_tasks
    \/ \E i \in IdInputs : get_task(i)
    \/ \E i \in IdInputs :
          \E t \in UpdateTitles(i), d \in UpdateDescriptions(i) :
             update_task(i, t, d)
    \/ \E i \in IdInputs : delete_task(i)
    \/ \E i \in IdInputs : mark_complete(i)
    \/ \E i \in IdInputs : mark_incomplete(i)
    \/ get_statistics

Spec == Init /\ [][Next]_vars

---------------------------------------------------------------------------
\* Direct use of the store, as a caller holding the TaskRepository makes it
\* (tests/test_repository.py): Task(task_id=i, title="a") then repo.add_task.
\* changed records whether the id was stored before the call.

repo_caller_add_task(task_id) ==
    LET task == Task(task_id, <<<<"a", 1>>>>, <<>>, Task_default_status, now + 1)
        r == repo_add_task(tasks, next_id, task)
    IN  /\ now < MaxTasks
        /\ now' = now + 1
        /\ tasks' = r.tasks
        /\ next_id' = r.next_id
        /\ inserted' = inserted \cup {task_id}
        /\ last' = Call("repo.add_task", task_id, "ok", "", task,
                        task_id \in DOMAIN tasks)
        /\ UNCHANGED <<issued, pending, ui>>

\* repo.delete_task(task_id); the returned bool is recorded in changed.
repo_caller_delete_task(task_id) ==
    LET r == repo_delete_task(tasks, next_id, task_id)
    IN  /\ tasks' = r.tasks
        /\ next_id' = r.next_id
        /\ last' = Call("repo.delete_task", task_id, "ok", "", NoTask, r.removed)
        /\ UNCHANGED <<now, issued, inserted, pending, ui>>

\* repo.clear() starts a new lifetime of the store.
repo_caller_clear ==
    /\ tasks' = repo_clear.tasks
    /\ next_id' = repo_clear.next_id
    /\ issued' = <<>>
    /\ inserted' = {}
    /\ last' = Call("repo.clear", 0, "ok", "", NoTask, FALSE)
    /\ UNCHANGED <<now, pending, ui>>

\* repo.get_next_id(); the returned id is recorded in task_id. The guard caps
\* the counter, which no insert moves past MaxTasks + 1.
repo_caller_get_next_id ==
    /\ next_id < MaxTasks + 2
    /\ next_id' = repo_get_next_id_counter(next_id)
    /\ last' = Call("repo.get_next_id", repo_get_next_id(next_id), "ok", "", NoTask,
                    FALSE)
    /\ UNCHANGED <<tasks, now, issued, inserted, pending, ui>>

\* repo.get_task(task_id); None is NoTask.
repo_caller_get_task(task_id) ==
    /\ last' = Call("repo.get_task", task_id, "ok", "", repo_get_task(tasks, task_id),
                    FALSE)
    /\ UNCHANGED <<tasks, next_id, now, issued, inserted, pending, ui>>

\* repo.task_exists(task_id); the returned bool is recorded in changed.
repo_caller_task_exists(task_id) ==
    /\ last' = Call("repo.task_exists", task_id, "ok", "", NoTask,
                    repo_task_exists(tasks, task_id))
    /\ UNCHANGED <<tasks, next_id, now, issued, inserted, pending, ui>>

\* repo.get_all_tasks()
repo_caller_get_all_tasks ==
    /\ last' = [Call("repo.get_all_tasks", 0, "ok", "", NoTask, FALSE)
                   EXCEPT !.listing = repo_get_all_tasks(tasks)]
    /\ UNCHANGED <<tasks, next_id, now, issued, inserted, pending, ui>>

\* The store's own operations, interleaved with orchestrator calls on the
\* same store.
NextStore ==
    \/ \E t \in StoreTitleInputs : add_task([title |-> t])
    \/ \E i \in IdInputs : delete_task(i)
    \/ \E i \in IdInputs : mark_complete(i)
    \/ \E i \in IdInputs : get_task(i)
    \/ get_all_tasks
    \/ get_statistics
    \/ \E i \in 1..MaxTasks : repo_caller_add_task(i)
    \/ \E i \in IdInputs : repo_caller_delete_task(i)
    \/ repo_caller_clear
    \/ repo_caller_get_next_id
    \/ \E i \in IdInputs : repo_caller_get_task(i)
    \/ \E i \in IdInputs : repo_caller_task_exists(i)
    \/ repo_caller_get_all_tasks

SpecStore == Init /\ [][NextStore]_vars

---------------------------------------------------------------------------
\* TaskService.add_task(title) run by two callers without mutual exclusion:
\* the other caller may run between task_id=self.repo.get_next_id() and
\* self.repo.add_task(task).

\* Lines 116-120: validate both fields, then read the next id.
add_task_read_id(c, title) ==
    LET vt == title_checked[title]
        vd == description_checked[add_task_default_description]
        inside == {o \in Callers : pending[o].pc = "read"}
    IN  /\ pending[c].pc = "outside"
        /\ IF ~vt.ok
           THEN /\ last' = Call("add_task", 0, "ValidationError", vt.msg, NoTask, FALSE)
                /\ UNCHANGED pending
           ELSE /\ now + Cardinality(inside) < MaxTasks
                /\ pending' = [pending EXCEPT ![c] =
                                  [pc |-> "read",
                                   new_id |-> add_task_new_id(tasks, next_id),
                                   title |-> vt.val]]
                /\ UNCHANGED last
        /\ UNCHANGED <<tasks, next_id, now, issued, inserted, ui>>

\* Lines 119-125: build the Task with the id read earlier, insert, return it.
add_task_insert(c) ==
    LET task == Task(pending[c].new_id, pending[c].title,
                     description_checked[add_task_default_description].val,
                     Task_default_status, now + 1)
        r == repo_add_task(tasks, next_id, task)
    IN  /\ pending[c].pc = "read"
        /\ now' = now + 1
        /\ tasks' = r.tasks
        /\ next_id' = r.next_id
        /\ issued' = Append(issued, task.id)
        /\ inserted' = inserted \cup {task.id}
        /\ last' = Call("add_task", task.id, "ok", "", task, FALSE)
        /\ pending' = [pending EXCEPT ![c] = Outside]
        /\ UNCHANGED ui

NextInterleaved ==
    \/ \E c \in Callers, t \in TitleInputs : add_task_read_id(c, t)
    \/ \E c \in Callers : add_task_insert(c)
    \/ \E i \in IdInputs : delete_task(i)
    \/ \E i \in IdInputs : mark_complete(i)
    \/ \E i \in IdInputs : get_task(i)
    \/ get_all_tasks

SpecInterleaved == Init /\ [][NextInterleaved]_vars

---------------------------------------------------------------------------
\* The front end (ui.py): TodoApp.run reads a menu choice, runs the action
\* inside try / except and loops. A line of input is a sequence of characters.

MenuLines ==
    { <<"1">>, <<"2">>, <<"3">>, <<"4">>, <<"5">>, <<"6">>,
      <<"0">>, <<"7">>, <<"1", "2">>, <<" ", "3", "\t">>, <<"x">>, <<"2", "x">>,
      <<" ">>, <<>> }

Digits == <<"0", "1", "2", "3", "4", "5", "6", "7", "8", "9">>
DigitValue(c) == (CHOOSE n \in 1..Len(Digits) : Digits[n] = c) - 1

RECURSIVE line_lstrip(_)
line_lstrip(s) ==
    IF s # <<>> /\ Head(s) \in Whitespace THEN line_lstrip(Tail(s)) ELSE s
RECURSIVE line_rstrip(_)
line_rstrip(s) ==
    IF s # <<>> /\ s[Len(s)] \in Whitespace
    THEN line_rstrip(SubSeq(s, 1, Len(s) - 1)) ELSE s
\* input(...).strip()
line_strip(s) == line_rstrip(line_lstrip(s))

RECURSIVE int_value(_)
int_value(s) ==
    IF s = <<>> THEN 0
    ELSE 10 * int_value(SubSeq(s, 1, Len(s) - 1)) + DigitValue(s[Len(s)])
\* int(choice_str): ValueError unless the text is a non-empty run of digits.
int_of(s) ==
    IF s = <<>> \/ \E n \in 1..Len(s) : \A k \in 1..Len(Digits) : Digits[k] # s[n]
    THEN [ok |-> FALSE, val |-> 0]
    ELSE [ok |-> TRUE, val |-> int_value(s)]

\* get_menu_choice reads one line: a number from 1 to 6 is returned, anything
\* else prints the error and prompts again. Back in run, 6 breaks the loop.
get_menu_choice(line) ==
    LET choice == int_of(line_strip(line))
    IN  /\ ui.pc = "menu" /\ ~ui.eof
        /\ IF choice.ok /\ 1 <= choice.val /\ choice.val <= 6
           THEN /\ ui' = [ui EXCEPT !.pc = IF choice.val = 6 THEN "exited" ELSE "action",
                                    !.choice = choice.val, !.shown = ""]
                /\ last' = Call("get_menu_choice", choice.val, "ok", "", NoTask, FALSE)
           ELSE /\ ui' = [ui EXCEPT
                             !.shown = "Error: Please enter a number between 1 and 6"]
                /\ last' = Call("get_menu_choice", 0, "ValueError", "", NoTask, FALSE)
        /\ UNCHANGED <<tasks, next_id, now, issued, inserted, pending>>

\* input() in get_menu_choice at the end of stdin raises EOFError; the method
\* catches ValueError only and run calls it outside its try statement.
get_menu_choice_eof ==
    /\ ui.pc = "menu"
    /\ ui' = [ui EXCEPT !.pc = "crashed", !.eof = TRUE, !.shown = ""]
    /\ last' = Call("get_menu_choice", 0, "EOFError", "", NoTask, FALSE)
    /\ UNCHANGED <<tasks, next_id, now, issued, inserted, pending>>

\* execute_action(choice) is about to run.
Chosen(choice) ==
    ui.pc = "action" /\ last.op = "get_menu_choice" /\ ui.choice = choice /\ ~ui.eof

\* get_text_input(required=True) prompts again for a blank line and returns
\* the line as typed; the description may be anything.
action_add_task ==
    /\ Chosen(1)
    /\ \E title \in TitleInputs \ {t \in TitleInputs : strip(t) = <<>>},
          description \in DescInputs :
          add_task([title |-> title, description |-> description])

\* get_all_tasks, then get_statistics unless the list is empty.
action_view_tasks ==
    /\ Chosen(2)
    /\ IF repo_get_all_tasks(tasks) = <<>> THEN get_all_tasks ELSE get_statistics

\* get_task(task_id), the two texts, then update_task with None for an empty
\* title and for a description equal to "".
action_update_task ==
    /\ Chosen(3)
    /\ \E task_id \in IdInputs :
          IF ~validate_task_id(tasks, task_id)
          THEN get_task(task_id)
          ELSE \E new_title \in TitleInputs, new_description \in DescInputs :
                  update_task(task_id,
                              IF Falsy(new_title) THEN NoneStr ELSE new_title,
                              IF new_description # <<>> THEN new_description
                              ELSE NoneStr)

\* get_task(task_id), the confirmation, then delete_task when confirmed.
action_delete_task ==
    /\ Chosen(4)
    /\ \E task_id \in IdInputs, confirmed \in BOOLEAN :
          IF validate_task_id(tasks, task_id) /\ confirmed
          THEN delete_task(task_id)
          ELSE get_task(task_id)

\* get_task(task_id), then mark_complete for 1 and mark_incomplete for 2.
action_toggle_status ==
    /\ Chosen(5)
    /\ \E task_id \in IdInputs, choice \in {1, 2} :
          IF ~validate_task_id(tasks, task_id)
          THEN get_task(task_id)
          ELSE IF choice = 1 THEN mark_complete(task_id) ELSE mark_incomplete(task_id)

\* stdin ends while an action waits for a line: input() raises EOFError, before
\* the action has called an operation that changes the store.
action_input_eof ==
    /\ ui.pc = "action" /\ last.op = "get_menu_choice"
    /\ ui.choice \in {1, 3, 4, 5}
    /\ ui' = [ui EXCEPT !.eof = TRUE]
    /\ last' = Call("execute_action", ui.choice, "EOFError", "", NoTask, FALSE)
    /\ UNCHANGED <<tasks, next_id, now, issued, inserted, pending>>

\* The except clauses of run and the end of the loop body: the two
\* application errors print "Error", every other Exception "Unexpected error".
run_after_action ==
    /\ ui.pc = "action" /\ last.op # "get_menu_choice"
    /\ ui' = [ui EXCEPT
                 !.pc = "menu",
                 !.shown = IF last.outcome \in {"ValidationError", "TaskNotFoundError"}
                           THEN "Error"
                           ELSE IF last.outcome = "ok" THEN ""
                           ELSE "Unexpected error"]
    /\ UNCHANGED <<tasks, next_id, now, last, issued, inserted, pending>>

NextUI ==
    \/ \E line \in MenuLines : get_menu_choice(line)
    \/ get_menu_choice_eof
    \/ action_add_task
    \/ action_view_tasks
    \/ action_update_task
    \/ action_delete_task
    \/ action_toggle_status
    \/ action_input_eof
    \/ run_after_action

SpecUI == Init /\ [][NextUI]_vars

---------------------------------------------------------------------------
\* Direct use of a Task object the orchestrator returned (tests/test_models.py):
\* task = service.get_task(task_id); task.id = value.

assign_task_id(task_id, value) ==
    /\ task_id \in DOMAIN tasks
    /\ value # tasks[task_id].id
    /\ tasks' = [tasks EXCEPT ![task_id] = Task_set_id(tasks[task_id], value)]
    /\ last' = Call("task.id=", task_id, "ok", "", Task_set_id(tasks[task_id], value),
                    FALSE)
    /\ UNCHANGED <<next_id, now, issued, inserted, pending, ui>>

NextEntity ==
    \/ \E t \in StoreTitleInputs : add_task([title |-> t])
    \/ \E i \in IdInputs : get_task(i)
    \/ \E i \in IdInputs : delete_task(i)
    \/ get_all_tasks
    \/ \E i \in IdInputs, v \in 1..(MaxTasks + 1) : assign_task_id(i, v)

SpecEntity == Init /\ [][NextEntity]_vars

---------------------------------------------------------------------------
\* The two validation functions on their own (tests/test_service.py,
\* TestValidation): a text is picked, then one of the functions is applied.

\* Longest run of whitespace put before and after a text.
MaxPad == 2

Run(c, n) == IF n = 0 THEN <<>> ELSE <<<<c, n>>>>

\* Lengths around nothing and around the two limits.
CoreLengths ==
    {0, 1, MaxTitleLen - 1, MaxTitleLen, MaxTitleLen + 1,
     MaxDescLen - 1, MaxDescLen, MaxDescLen + 1}

\* The texts without surrounding whitespace: "", "x" * n, and "a b".
CoreTexts ==
    {Run("x", n) : n \in CoreLengths} \cup {<<<<"a", 1>>, Sp, <<"b", 1>>>>}

\* An argument of a validation call: arg is the text passed (core with spaces
\* before and tabs after), or None with the empty core.
RawInputs ==
    {[arg |-> Run(" ", l) \o core \o Run("\t", t), core |-> core] :
        l \in 0..MaxPad, t \in 0..MaxPad, core \in CoreTexts}
    \cup {[arg |-> NoneStr, core |-> <<>>]}

Picked(in) ==
    [op |-> "input", arg |-> in.arg, core |-> in.core, outcome |-> "none",
     msg |-> "", val |-> <<>>]

Returned(op, r) ==
    [op |-> op, arg |-> last.arg, core |-> last.core,
     outcome |-> IF r.ok THEN "ok" ELSE "ValidationError",
     msg |-> r.msg, val |-> r.val]

InitValidate ==
    /\ tasks = repo_init.tasks
    /\ next_id = repo_init.next_id
    /\ now = 0
    /\ issued = <<>>
    /\ inserted = {}
    /\ pending = NoPending
    /\ ui = AtMenu
    /\ last \in {Picked(in) : in \in RawInputs}

call_validate_title ==
    /\ last.op = "input"
    /\ last' = Returned("validate_title", validate_title(last.arg))
    /\ UNCHANGED <<tasks, next_id, now, issued, inserted, pending, ui>>

call_validate_description ==
    /\ last.op = "input"
    /\ last' = Returned("validate_description", validate_description(last.arg))
    /\ UNCHANGED <<tasks, next_id, now, issued, inserted, pending, ui>>

NextValidate ==
    \/ call_validate_title
    \/ call_validate_description

SpecValidate == InitValidate /\ [][NextValidate]_vars

---------------------------------------------------------------------------
\* Properties

\* The two status operations of the orchestrator.
MarkOps == {"mark_complete", "mark_incomplete"}

\* C1: no two successful add calls return the same id, also when the task
\* holding the earlier id was deleted in between.
C1_NoIdReissued ==
    \A i, j \in DOMAIN issued : i # j => issued[i] # issued[j]

\* The last call is a successful add made after the first issued id's task
\* was deleted.
C1_Witness ==
    /\ last.op = "add_task" /\ last.outcome = "ok"
    /\ Len(issued) >= 2
    /\ issued[1] \notin DOMAIN tasks
    /\ last.task_id \in DOMAIN tasks

\* C2: the k-th successful add on a fresh store returns id k, whatever is
\* interleaved between the adds.
C2_SequentialIds ==
    \A k \in DOMAIN issued : issued[k] = k

\* A second add succeeded on a store that a delete had emptied.
C2_Witness ==
    /\ last.op = "add_task" /\ last.outcome = "ok" /\ last.task_id = 2
    /\ Cardinality(DOMAIN tasks) = 1
    /\ Len(issued) = 2

\* C3: next_id is strictly greater than every id inserted since the last
\* reset, removed ones included, and a step lowers next_id only if it is the
\* reset; direct store inserts in any id order included.
C3_NextIdAboveInserted ==
    /\ [](\A i \in inserted : i < next_id)
    /\ [][next_id' < next_id => last'.op = "repo.clear"]_vars

\* A lower id was inserted directly after a higher one whose task is gone;
\* the counter stayed above both.
C3_Witness ==
    /\ last.op = "repo.add_task" /\ last.task_id = 1
    /\ inserted = {1, 2}
    /\ DOMAIN tasks = {1}
    /\ next_id = 3

\* C4: a task's status is Incomplete or Complete, starts Incomplete, and
\* changes only in a step that is a successful mark_complete or
\* mark_incomplete on that task's id.
C4_StatusChangesOnlyByMark ==
    /\ [](\A i \in DOMAIN tasks : tasks[i].status \in TaskStatus)
    /\ [][ /\ \A i \in DOMAIN tasks' \ DOMAIN tasks : tasks'[i].status = INCOMPLETE
           /\ \A i \in DOMAIN tasks \cap DOMAIN tasks' :
                 tasks'[i].status # tasks[i].status
                 => /\ last'.op \in MarkOps
                    /\ last'.outcome = "ok"
                    /\ last'.task_id = i ]_vars

\* An update changed a Complete task and left it Complete.
C4_Witness ==
    /\ last.op = "update_task" /\ last.outcome = "ok" /\ last.changed
    /\ tasks[last.task_id].status = COMPLETE

\* C5: mark_complete on a Complete task (in particular right after a
\* successful mark_complete on the same id) and mark_incomplete on an
\* Incomplete task fail with ValidationError and change nothing in the store.
C5_NoOpTransitionRejected ==
    [][ /\ \A i \in DOMAIN tasks :
              /\ (last'.op = "mark_complete" /\ last'.task_id = i
                    /\ tasks[i].status = COMPLETE)
                 => (last'.outcome = "ValidationError" /\ tasks' = tasks
                       /\ next_id' = next_id)
              /\ (last'.op = "mark_incomplete" /\ last'.task_id = i
                    /\ tasks[i].status = INCOMPLETE)
                 => (last'.outcome = "ValidationError" /\ tasks' = tasks
                       /\ next_id' = next_id)
        /\ (last.op = "mark_complete" /\ last.outcome = "ok"
              /\ last'.op = "mark_complete" /\ last'.task_id = last.task_id)
           => (last'.outcome = "ValidationError" /\ tasks' = tasks) ]_vars

\* mark_complete was just rejected on a stored task that is Complete.
C5_Witness ==
    /\ last.op = "mark_complete" /\ last.outcome = "ValidationError"
    /\ last.msg = "Task is already complete"
    /\ last.task_id \in DOMAIN tasks
    /\ tasks[last.task_id].status = COMPLETE

\* The statuses list_all shows for task_id.
ListedStatus(ts, task_id) ==
    LET listing == repo_get_all_tasks(ts)
    IN  {listing[k].status : k \in {n \in 1..Len(listing) : listing[n].id = task_id}}

\* C6: mark_complete on an Incomplete task makes it Complete, mark_incomplete on
\* a Complete task makes it Incomplete; the call returns that task and get and
\* list_all show the new status.
C6_MarkSetsStatus ==
    [][\A i \in DOMAIN tasks :
          /\ (last'.op = "mark_complete" /\ last'.task_id = i
                /\ tasks[i].status = INCOMPLETE)
             => /\ last'.outcome = "ok"
                /\ last'.task = repo_get_task(tasks', i)
                /\ repo_get_task(tasks', i).status = COMPLETE
                /\ ListedStatus(tasks', i) = {COMPLETE}
          /\ (last'.op = "mark_incomplete" /\ last'.task_id = i
                /\ tasks[i].status = COMPLETE)
             => /\ last'.outcome = "ok"
                /\ last'.task = repo_get_task(tasks', i)
                /\ repo_get_task(tasks', i).status = INCOMPLETE
                /\ ListedStatus(tasks', i) = {INCOMPLETE} ]_vars

\* mark_incomplete just succeeded (so on a task mark_complete had completed).
C6_Witness ==
    /\ last.op = "mark_incomplete" /\ last.outcome = "ok"
    /\ tasks[last.task_id].status = INCOMPLETE

\* C7: add(title, status=Complete) with a valid title succeeds and stores a
\* task whose status is Complete.
C7_AddAcceptsStatus ==
    [][\A t \in TitleInputs :
          (title_checked[t].ok /\ add_task([title |-> t, status |-> COMPLETE]))
          => /\ last'.outcome = "ok"
             /\ last'.task.status = COMPLETE
             /\ last'.task_id \in DOMAIN tasks'
             /\ tasks'[last'.task_id].status = COMPLETE ]_vars

\* C8: the task a successful add inserts and returns has status Incomplete.
C8_AddedTaskIncomplete ==
    [][(last'.op = "add_task" /\ last'.outcome = "ok")
       => /\ last'.task.status = INCOMPLETE
          /\ last'.task_id \in DOMAIN tasks'
          /\ tasks'[last'.task_id] = last'.task ]_vars

\* An add with the longest valid title and description just succeeded.
C8_Witness ==
    /\ last.op = "add_task" /\ last.outcome = "ok"
    /\ StrLen(last.task.title) = MaxTitleLen
    /\ StrLen(last.task.description) = MaxDescLen
    /\ last.task.status = INCOMPLETE

\* C9: assigning a different id to an existing task is rejected with an error
\* and leaves the task's id unchanged.
C9_IdImmutable ==
    [][last'.op = "task.id="
       => /\ last'.outcome = "AttributeError"
          /\ \A k \in DOMAIN tasks : tasks'[k].id = tasks[k].id ]_vars

\* C10: every stored task's title equals its trimmed form and has between 1
\* and 200 characters.
C10_TitlesValid ==
    \A k \in DOMAIN tasks :
        /\ tasks[k].title = strip(tasks[k].title)
        /\ tasks[k].title # <<>>
        /\ StrLen(tasks[k].title) >= 1
        /\ StrLen(tasks[k].title) <= MaxTitleLen

\* An update was just rejected while a task holds a 200-character title that a
\* padded input produced.
C10_Witness ==
    /\ last.op = "update_task" /\ last.outcome = "ValidationError"
    /\ \E k \in DOMAIN tasks : StrLen(tasks[k].title) = MaxTitleLen

\* C11: every stored task's description equals its trimmed form and has
\* between 0 and 500 characters.
C11_DescriptionsValid ==
    \A k \in DOMAIN tasks :
        /\ tasks[k].description = strip(tasks[k].description)
        /\ tasks[k].description # NoneStr
        /\ StrLen(tasks[k].description) >= 0
        /\ StrLen(tasks[k].description) <= MaxDescLen

\* A call was just rejected for its description while one task holds a
\* 500-character description and another the empty one.
C11_Witness ==
    /\ last.outcome = "ValidationError"
    /\ last.msg = "Description exceeds 500 characters"
    /\ \E k \in DOMAIN tasks : StrLen(tasks[k].description) = MaxDescLen
    /\ \E k \in DOMAIN tasks : tasks[k].description = <<>>

\* C12: list_all is sorted strictly ascending by id and holds exactly the
\* stored tasks, each once (the empty sequence for an empty store), also after
\* direct store inserts in any id order.
C12_ListSortedAndExact ==
    LET listing == repo_get_all_tasks(tasks)
    IN  /\ \A m, n \in 1..Len(listing) : m < n => listing[m].id < listing[n].id
        /\ Len(listing) = Cardinality(DOMAIN tasks)
        /\ {listing[n] : n \in 1..Len(listing)} = {tasks[k] : k \in DOMAIN tasks}
        /\ (DOMAIN tasks = {} => listing = <<>>)
        /\ (last.op = "get_all_tasks" => last.listing = listing)

\* list_all was just called on a store into which id 1 was inserted after
\* id 2.
C12_Witness ==
    /\ last.op = "get_all_tasks"
    /\ Len(last.listing) = 2
    /\ last.listing[1].id = 1 /\ last.listing[2].id = 2
    /\ last.listing[1].created_at > last.listing[2].created_at

\* C13: statistics() returns (total, completed, remaining) with total the
\* length of list_all(), completed the number of stored Complete tasks and
\* completed + remaining = total, so 0 <= completed <= total.
C13_StatisticsConsistent ==
    LET s == get_statistics_of(tasks)
    IN  /\ s[1] = Len(repo_get_all_tasks(tasks))
        /\ s[2] = Cardinality({k \in DOMAIN tasks : tasks[k].status = COMPLETE})
        /\ s[2] + s[3] = s[1]
        /\ 0 <= s[2] /\ s[2] <= s[1]
        /\ (last.op = "get_statistics" => last.stats = s)

\* statistics() just returned (2, 1, 1).
C13_Witness ==
    /\ last.op = "get_statistics"
    /\ last.stats = <<2, 1, 1>>

\* The orchestrator's operations that take an id.
IdOps == {"get_task", "update_task", "delete_task", "mark_complete", "mark_incomplete"}

\* C14: get, update, delete, mark_complete and mark_incomplete fail with
\* TaskNotFoundError whenever the id is not in the store at the time of the
\* call, and such a call leaves the mapping, the tasks and next_id unchanged.
C14_MissingIdNotFound ==
    [][(last'.op \in IdOps /\ last'.task_id \notin DOMAIN tasks)
       => /\ last'.outcome = "TaskNotFoundError"
          /\ tasks' = tasks
          /\ next_id' = next_id ]_vars

\* An update was just rejected for an id that had been handed out and deleted,
\* while another task is stored.
C14_Witness ==
    /\ last.op = "update_task" /\ last.outcome = "TaskNotFoundError"
    /\ last.task_id \in inserted
    /\ last.task_id \notin DOMAIN tasks
    /\ DOMAIN tasks # {}

\* Ids list_all shows.
ListedIds(ts) ==
    LET listing == repo_get_all_tasks(ts)
    IN  {listing[n].id : n \in 1..Len(listing)}

\* C15: delete(id) on an existing id returns the task stored under it and
\* removes it: afterwards exists(id) is false, get(id) fails with
\* TaskNotFoundError, the id is absent from list_all() and total is one less.
C15_DeleteRemoves ==
    [][\A i \in DOMAIN tasks :
          (last'.op = "delete_task" /\ last'.task_id = i)
          => /\ last'.outcome = "ok"
             /\ last'.task = tasks[i]
             /\ ~repo_task_exists(tasks', i)
             /\ ~validate_task_id(tasks', i)
             /\ i \notin ListedIds(tasks')
             /\ get_statistics_of(tasks')[1] = get_statistics_of(tasks)[1] - 1 ]_vars

\* A Complete task with a 200-character title was just deleted and returned,
\* and another task is still stored.
C15_Witness ==
    /\ last.op = "delete_task" /\ last.outcome = "ok"
    /\ last.task.status = COMPLETE
    /\ StrLen(last.task.title) = MaxTitleLen
    /\ last.task_id \notin DOMAIN tasks
    /\ Cardinality(DOMAIN tasks) = 1

\* C16: a successful add(title, description) stores a task with the trimmed
\* title and the trimmed description; get(returned id) returns that task, it
\* is in list_all() and total is one more.
C16_AddStoresTrimmed ==
    [][(last'.op = "add_task" /\ last'.outcome = "ok")
       => \A args \in AddCalls :
             add_task(args)
             => LET id == last'.task_id
                    description == IF "description" \in DOMAIN args
                                   THEN args.description ELSE <<>>
                IN  /\ last'.task.title = strip(args.title)
                    /\ last'.task.description = strip(description)
                    /\ last'.task.id = id
                    /\ validate_task_id(tasks', id)
                    /\ repo_get_task(tasks', id) = last'.task
                    /\ id \in ListedIds(tasks')
                    /\ id \notin ListedIds(tasks)
                    /\ get_statistics_of(tasks')[1] = get_statistics_of(tasks)[1] + 1 ]_vars

\* The second add just succeeded, with padded inputs: the stored title has
\* 200 characters and the stored description 500.
C16_Witness ==
    /\ last.op = "add_task" /\ last.outcome = "ok"
    /\ Cardinality(DOMAIN tasks) = 2
    /\ tasks[last.task_id].title = <<<<"x", MaxTitleLen>>>>
    /\ tasks[last.task_id].description = <<<<"y", MaxDescLen>>>>

\* C17: validate_title fails with ValidationError exactly when the trimmed
\* text is empty or longer than 200 characters, and otherwise returns the
\* trimmed text; the limit applies to the trimmed length.
C17_ValidateTitle ==
    (last.op = "validate_title" /\ last.arg # NoneStr)
    => /\ last.outcome \in {"ok", "ValidationError"}
       /\ last.outcome = "ValidationError"
             <=> (last.core = <<>> \/ StrLen(last.core) > MaxTitleLen)
       /\ last.outcome = "ok" => last.val = last.core

\* A text of more than 200 characters was accepted: its trimmed form has
\* exactly 200.
C17_Witness ==
    /\ last.op = "validate_title" /\ last.outcome = "ok"
    /\ StrLen(last.arg) > MaxTitleLen
    /\ StrLen(last.val) = MaxTitleLen

\* C18: validate_description returns "" for absent or empty input; for present
\* input it fails with ValidationError exactly when the trimmed length exceeds
\* 500 and otherwise returns the trimmed text.
C18_ValidateDescription ==
    last.op = "validate_description"
    => /\ last.outcome \in {"ok", "ValidationError"}
       /\ (last.arg = NoneStr \/ last.arg = <<>>)
             => (last.outcome = "ok" /\ last.val = <<>>)
       /\ last.outcome = "ValidationError" <=> StrLen(last.core) > MaxDescLen
       /\ last.outcome = "ok" => last.val = last.core

\* Whitespace-only input gave the empty string.
C18_Witness ==
    /\ last.op = "validate_description" /\ last.outcome = "ok"
    /\ last.arg # NoneStr /\ StrLen(last.arg) = 2 * MaxPad
    /\ last.core = <<>>
    /\ last.val = <<>>

\* C19: a successful update(id, new_title, new_description) returns
\* changed = true exactly when a provided (non-None) field, trimmed, differs
\* from the stored value; a provided field ends up stored trimmed, a field
\* that does not differ is not written, and with changed = false (as for a
\* title differing only by surrounding whitespace) the task is as it was.
C19_ChangedIffDiffers ==
    [][(last'.op = "update_task" /\ last'.outcome = "ok")
       => \A i \in DOMAIN tasks :
             \A t \in UpdateTitles(i), d \in UpdateDescriptions(i) :
                update_task(i, t, d)
                => LET titleDiffers == t # NoneStr /\ strip(t) # tasks[i].title
                       descDiffers == d # NoneStr /\ strip(d) # tasks[i].description
                   IN  /\ last'.changed = (titleDiffers \/ descDiffers)
                       /\ tasks'[i].title =
                             IF titleDiffers THEN strip(t) ELSE tasks[i].title
                       /\ tasks'[i].description =
                             IF descDiffers THEN strip(d) ELSE tasks[i].description
                       /\ ~last'.changed => tasks' = tasks
                       /\ (t = <<Sp, <<"a", 1>>, Sp>>
                              /\ tasks[i].title = <<<<"a", 1>>>> /\ d = NoneStr)
                          => ~last'.changed ]_vars

\* An update of a task titled "a" just succeeded with changed = false while
\* another task is stored.
C19_Witness ==
    /\ last.op = "update_task" /\ last.outcome = "ok" /\ ~last.changed
    /\ Cardinality(DOMAIN tasks) = 2
    /\ tasks[last.task_id].title = <<<<"a", 1>>>>
    /\ last.task = tasks[last.task_id]

\* C20: update with both fields equal to the current values, or with both
\* fields None, succeeds with changed = false and leaves id, created_at,
\* title, description, status, the mapping and next_id as they were.
C20_NoChangeUpdate ==
    [][(last'.op = "update_task")
       => \A i \in DOMAIN tasks :
             /\ update_task(i, tasks[i].title, tasks[i].description)
                => /\ last'.outcome = "ok" /\ ~last'.changed
                   /\ last'.task = tasks[i]
                   /\ tasks' = tasks /\ next_id' = next_id
             /\ update_task(i, NoneStr, NoneStr)
                => /\ last'.outcome = "ok" /\ ~last'.changed
                   /\ last'.task = tasks[i]
                   /\ tasks' = tasks /\ next_id' = next_id ]_vars

\* An update of a complete task with a 200-character title and a
\* 500-character description just returned changed = false.
C20_Witness ==
    /\ last.op = "update_task" /\ last.outcome = "ok" /\ ~last.changed
    /\ last.task.title = <<<<"x", MaxTitleLen>>>>
    /\ last.task.description = <<<<"y", MaxDescLen>>>>
    /\ last.task.status = COMPLETE
    /\ last.task = tasks[last.task_id]

\* C21: whenever update(id, new_title, new_description) fails with
\* ValidationError, the task's title and description are both exactly what
\* they were before the call.
C21_UpdateAllOrNothing ==
    [][(last'.op = "update_task" /\ last'.outcome = "ValidationError")
       => \A i \in DOMAIN tasks :
             /\ i \in DOMAIN tasks'
             /\ tasks'[i].title = tasks[i].title
             /\ tasks'[i].description = tasks[i].description ]_vars

\* C23: update(id, new_title, new_description) with a valid new_title that
\* differs from the stored title and a new_description that fails validation
\* raises ValidationError (the description's) and leaves the stored title
\* changed to the trimmed new title; nothing else of the task changes.
C23_TitleStaysApplied ==
    [][(last'.op = "update_task" /\ last'.task_id \in DOMAIN tasks)
       => LET i == last'.task_id
          IN  \A t \in UpdateTitles(i) \ {NoneStr},
                 d \in UpdateDescriptions(i) \ {NoneStr} :
                 ( /\ title_checked[t].ok
                   /\ title_checked[t].val # tasks[i].title
                   /\ ~description_checked[d].ok
                   /\ update_task(i, t, d) )
                 => /\ last'.outcome = "ValidationError"
                    /\ last'.msg = "Description exceeds 500 characters"
                    /\ tasks' = [tasks EXCEPT ![i].title = strip(t)]
                    /\ tasks'[i].title # tasks[i].title ]_vars

\* An update of the second task just failed on its description, and the task
\* holds the 200-character title while the first task holds "a".
C23_Witness ==
    /\ last.op = "update_task" /\ last.outcome = "ValidationError"
    /\ last.msg = "Description exceeds 500 characters"
    /\ last.task_id = 2
    /\ DOMAIN tasks = {1, 2}
    /\ tasks[1].title = <<<<"a", 1>>>>
    /\ tasks[2].title = <<<<"x", MaxTitleLen>>>>

\* C22: reset() empties the mapping and sets next_id to 1 from any state, and
\* the first add after a reset returns id 1 again.
C22_ResetRestarts ==
    [][/\ last'.op = "repo.clear"
          => /\ tasks' = EmptyTasks
             /\ next_id' = 1
             /\ repo_get_all_tasks(tasks') = <<>>
       /\ (last.op = "repo.clear" /\ last'.op = "add_task" /\ last'.outcome = "ok")
          => /\ last'.task_id = 1
             /\ DOMAIN tasks' = {1}
             /\ next_id' = 2 ]_vars

\* The second task ever created was added right after a reset and holds id 1,
\* the id the first task had.
C22_Witness ==
    /\ last.op = "add_task" /\ last.outcome = "ok" /\ last.task_id = 1
    /\ now = 2
    /\ tasks[1].created_at = 2
    /\ issued = <<1>>

\* C25 as stated: immediately after every store insert, next_id() is one more
\* than the inserted id.
C25_InsertSetsCounter ==
    [][\A i \in 1..MaxTasks : repo_caller_add_task(i) => next_id' = i + 1]_vars

\* C25: immediately after every store insert (direct, or made by add) the
\* counter is above the inserted id, next_id() >= task.id + 1, and it is
\* exactly task.id + 1 when and only when task.id + 1 is at least the
\* previous counter.
C25_InsertCounterAbove ==
    [][(last'.op \in {"repo.add_task", "add_task"} /\ last'.outcome = "ok")
       => LET id == last'.task_id
          IN  /\ repo_get_next_id(next_id') >= id + 1
              /\ (repo_get_next_id(next_id') = id + 1) <=> (id + 1 >= next_id) ]_vars

\* Id 2 was inserted directly into the empty store: the counter went from 1
\* to 3.
C25_Witness ==
    /\ last.op = "repo.add_task" /\ last.task_id = 2
    /\ DOMAIN tasks = {2}
    /\ inserted = {2}
    /\ next_id = 3

\* C26: store insert(task) sets next_id to max(previous next_id, task.id + 1):
\* an id below the counter is stored and leaves the counter unchanged, an id
\* at or above the counter moves the counter to task.id + 1.
C26_InsertCounterIsMax ==
    [][\A i \in 1..MaxTasks :
          repo_caller_add_task(i)
          => /\ next_id' = Max2(next_id, i + 1)
             /\ i < next_id => (next_id' = next_id /\ tasks'[i] = last'.task)
             /\ i >= next_id => (next_id' = i + 1 /\ tasks'[i] = last'.task) ]_vars

\* An id that was not stored and lies two below the counter was just
\* inserted, and the counter is where it was.
C26_Witness ==
    /\ last.op = "repo.add_task" /\ ~last.changed
    /\ last.task_id + 2 = next_id
    /\ tasks[last.task_id] = last.task
    /\ Cardinality(DOMAIN tasks) = 2

\* C27: store insert of a task whose id is already present never fails and
\* replaces the prior entry: the number of stored tasks is unchanged and
\* get(id) returns the newly inserted task.
C27_InsertOverwrites ==
    [][\A i \in DOMAIN tasks :
          repo_caller_add_task(i)
          => /\ last'.outcome = "ok"
             /\ Cardinality(DOMAIN tasks') = Cardinality(DOMAIN tasks)
             /\ repo_get_task(tasks', i) = last'.task
             /\ repo_get_task(tasks', i) # tasks[i]
             /\ \A k \in DOMAIN tasks \ {i} : repo_get_task(tasks', k) = tasks[k] ]_vars

\* A task was just inserted under the id of a stored task: one task is
\* stored, the second one created.
C27_Witness ==
    /\ last.op = "repo.add_task" /\ last.changed
    /\ DOMAIN tasks = {last.task_id}
    /\ tasks[last.task_id].created_at = 2

\* The read operations of the store and of the orchestrator.
ReadOps ==
    {"repo.get_next_id", "repo.get_task", "repo.task_exists", "repo.get_all_tasks",
     "get_task", "get_all_tasks", "get_statistics"}

\* C28: next_id(), get, exists, list_all and statistics are pure reads: a
\* call of any of them, in any state, leaves the mapping, every stored task
\* and the counter unchanged; next_id() returns the counter, and a second
\* next_id() right after it returns the same value.
C28_ReadsArePure ==
    [][last'.op \in ReadOps
       => /\ tasks' = tasks
          /\ next_id' = next_id
          /\ last'.op = "repo.get_next_id"
             => /\ last'.task_id = next_id
                /\ repo_get_next_id(next_id') = last'.task_id ]_vars

\* next_id() just returned 3 on a store that holds one task.
C28_Witness ==
    /\ last.op = "repo.get_next_id" /\ last.task_id = 3
    /\ next_id = 3
    /\ Cardinality(DOMAIN tasks) = 1

\* C29: store remove(id) returns true exactly when id was present, and then
\* only that entry is gone; for an absent id it returns false, raises nothing
\* and leaves the mapping unchanged; next_id is unchanged in both cases.
C29_RemoveReportsPresence ==
    [][\A i \in IdInputs :
          repo_caller_delete_task(i)
          => /\ last'.outcome = "ok"
             /\ last'.changed <=> i \in DOMAIN tasks
             /\ i \in DOMAIN tasks
                => /\ DOMAIN tasks' = DOMAIN tasks \ {i}
                   /\ \A k \in DOMAIN tasks' : tasks'[k] = tasks[k]
             /\ i \notin DOMAIN tasks => tasks' = tasks
             /\ next_id' = next_id ]_vars

\* remove just returned true for one of two stored tasks; the other is still
\* stored and the counter is still 3.
C29_Witness ==
    /\ last.op = "repo.delete_task" /\ last.changed
    /\ last.task_id \notin DOMAIN tasks
    /\ Cardinality(DOMAIN tasks) = 1
    /\ next_id = 3

\* C30: in every reachable store state and for every id, exists(id) is true
\* iff get(id) returns a task rather than None iff a task with that id is in
\* list_all(); store get never fails.
C30_ReadViewsAgree ==
    /\ \A i \in IdInputs \cup {MaxTasks + 1} :
          /\ repo_task_exists(tasks, i) <=> repo_get_task(tasks, i) # NoTask
          /\ repo_task_exists(tasks, i) <=> i \in ListedIds(tasks)
          /\ repo_get_task(tasks, i) # NoTask => repo_get_task(tasks, i).id = i
    /\ last.op = "repo.get_task"
       => /\ last.outcome = "ok"
          /\ last.task # NoTask <=> repo_task_exists(tasks, last.task_id)
    /\ last.op = "repo.task_exists"
       => (last.changed <=> last.task_id \in ListedIds(tasks))

\* exists(1) just returned false on a store that holds task 2 only, after
\* two inserts.
C30_Witness ==
    /\ last.op = "repo.task_exists" /\ last.task_id = 1 /\ ~last.changed
    /\ DOMAIN tasks = {2}
    /\ inserted = {1, 2}

\* C24: when two add operations interleave (each reads next_id, then
\* inserts), both callers can hold the same candidate id; the second insert
\* then succeeds and overwrites the first, so two successful adds leave one
\* task in the store and return the same id twice.
C24_InterleavedAddsCollide ==
    [][\A c \in Callers :
          add_task_insert(c)
          => LET id == pending[c].new_id
             IN  /\ last'.outcome = "ok" /\ last'.task_id = id
                 /\ repo_get_task(tasks', id) = last'.task
                 /\ \A o \in Callers \ {c} :
                       (pending[o].pc = "read" /\ pending[o].new_id = id)
                       => pending'[o].new_id = id
                 /\ repo_task_exists(tasks, id)
                    => /\ Cardinality(DOMAIN tasks') = Cardinality(DOMAIN tasks)
                       /\ repo_get_task(tasks', id) # tasks[id]
                       /\ \E m, n \in 1..Len(issued') :
                             m # n /\ issued'[m] = id /\ issued'[n] = id ]_vars

\* Two adds have succeeded and both returned id 1; the store holds one task,
\* the one built second.
C24_Witness ==
    /\ last.op = "add_task" /\ last.outcome = "ok"
    /\ issued = <<1, 1>>
    /\ DOMAIN tasks = {1}
    /\ tasks[1].created_at = 2
    /\ \A c \in Callers : pending[c].pc = "outside"

\* C31: delete(id) affects only the task with that id: every other stored
\* task keeps its id, title, description, status and created_at, and next_id
\* is unchanged.
C31_DeleteFrame ==
    [][(last'.op = "delete_task")
       => LET i == last'.task_id
          IN  /\ delete_task(i)
              /\ next_id' = next_id
              /\ DOMAIN tasks \ {i} \subseteq DOMAIN tasks'
              /\ \A k \in DOMAIN tasks \ {i} :
                    /\ tasks'[k].id = tasks[k].id
                    /\ tasks'[k].title = tasks[k].title
                    /\ tasks'[k].description = tasks[k].description
                    /\ tasks'[k].status = tasks[k].status
                    /\ tasks'[k].created_at = tasks[k].created_at ]_vars

\* Task 1 was just deleted; task 2, Complete and with a 500-character
\* description, is still stored and the counter is 3.
C31_Witness ==
    /\ last.op = "delete_task" /\ last.outcome = "ok" /\ last.task_id = 1
    /\ DOMAIN tasks = {2}
    /\ tasks[2].status = COMPLETE
    /\ tasks[2].description = <<<<"y", MaxDescLen>>>>
    /\ next_id = 3

\* C32: update never changes the task's id, status or created_at, never
\* changes a field whose argument is None, never changes any other task, and
\* never changes next_id or the set of stored ids.
C32_UpdateFrame ==
    [][(last'.op = "update_task")
       => /\ next_id' = next_id
          /\ DOMAIN tasks' = DOMAIN tasks
          /\ \A k \in DOMAIN tasks \ {last'.task_id} : tasks'[k] = tasks[k]
          /\ \A i \in DOMAIN tasks \cap {last'.task_id} :
                /\ tasks'[i].id = tasks[i].id
                /\ tasks'[i].status = tasks[i].status
                /\ tasks'[i].created_at = tasks[i].created_at
                /\ \/ tasks'[i].title = tasks[i].title
                   \/ \A d \in UpdateDescriptions(i) : ~update_task(i, NoneStr, d)
                /\ \/ tasks'[i].description = tasks[i].description
                   \/ \A t \in UpdateTitles(i) : ~update_task(i, t, NoneStr) ]_vars

\* An update just changed the first task, which is Complete and was created
\* first, while a second task is stored.
C32_Witness ==
    /\ last.op = "update_task" /\ last.outcome = "ok" /\ last.changed
    /\ last.task_id = 1
    /\ DOMAIN tasks = {1, 2}
    /\ tasks[1].status = COMPLETE
    /\ tasks[1].created_at = 1
    /\ tasks[1].description = <<<<"y", MaxDescLen>>>>

\* C33: a successful mark_complete or mark_incomplete changes only the status
\* of the addressed task: its id, title, description and created_at, every
\* other task, the set of stored ids and next_id are unchanged.
C33_MarkFrame ==
    [][(last'.op \in MarkOps /\ last'.outcome = "ok")
       => LET i == last'.task_id
          IN  /\ i \in DOMAIN tasks
              /\ DOMAIN tasks' = DOMAIN tasks
              /\ next_id' = next_id
              /\ \A k \in DOMAIN tasks \ {i} : tasks'[k] = tasks[k]
              /\ tasks'[i].status # tasks[i].status
              /\ tasks'[i].id = tasks[i].id
              /\ tasks'[i].title = tasks[i].title
              /\ tasks'[i].description = tasks[i].description
              /\ tasks'[i].created_at = tasks[i].created_at ]_vars

\* mark_incomplete just succeeded on the second task, which has a
\* 500-character description, while the first task is Complete.
C33_Witness ==
    /\ last.op = "mark_incomplete" /\ last.outcome = "ok" /\ last.task_id = 2
    /\ DOMAIN tasks = {1, 2}
    /\ tasks[2].description = <<<<"y", MaxDescLen>>>>
    /\ tasks[2].status = INCOMPLETE
    /\ tasks[1].status = COMPLETE

\* C34: on an Incomplete task, mark_complete followed by mark_incomplete both
\* succeed and restore the whole store state (all task fields, the mapping
\* and next_id); successful mark_complete and mark_incomplete calls on one id
\* alternate: each succeeds only from the other's status, and a repeat right
\* after a success is rejected.
C34_ToggleRoundTrip ==
    [][(last'.op \in MarkOps /\ last'.task_id \in DOMAIN tasks)
       => LET i == last'.task_id
              repeated == last.op = last'.op /\ last.outcome = "ok" /\ last.task_id = i
          IN  /\ (tasks[i].status = INCOMPLETE /\ mark_complete(i))
                 => /\ last'.outcome = "ok"
                    /\ tasks'[i].status = COMPLETE
                    /\ tasks = [tasks' EXCEPT ![i].status = INCOMPLETE]
                    /\ next_id' = next_id
              /\ ( /\ last.op = "mark_complete" /\ last.outcome = "ok" /\ last.task_id = i
                   /\ mark_incomplete(i) )
                 => /\ last'.outcome = "ok"
                    /\ tasks' = [tasks EXCEPT ![i].status = INCOMPLETE]
                    /\ next_id' = next_id
              /\ repeated => last'.outcome = "ValidationError"
              /\ (last'.outcome = "ok" /\ last'.op = "mark_complete")
                 => (tasks[i].status = INCOMPLETE /\ tasks'[i].status = COMPLETE)
              /\ (last'.outcome = "ok" /\ last'.op = "mark_incomplete")
                 => (tasks[i].status = COMPLETE /\ tasks'[i].status = INCOMPLETE) ]_vars

\* mark_incomplete just succeeded on the only task, created first with a
\* 200-character title: the task is as add left it.
C34_Witness ==
    /\ last.op = "mark_incomplete" /\ last.outcome = "ok" /\ last.task_id = 1
    /\ DOMAIN tasks = {1}
    /\ tasks[1] = Task(1, <<<<"x", MaxTitleLen>>>>, <<>>, INCOMPLETE, 1)
    /\ next_id = 2

\* C36: an add that fails validation (empty or over-long title, or over-long
\* description) leaves the store exactly as it was: no task is inserted and
\* next_id is not advanced, and the next successful add gets the id it would
\* have got without the failed call.
C36_FailedAddLeavesStore ==
    [][(last'.op = "add_task")
       => /\ last'.outcome = "ValidationError"
             => /\ tasks' = tasks
                /\ next_id' = next_id
                /\ repo_get_next_id(next_id') = repo_get_next_id(next_id)
          /\ \/ last'.outcome = "ValidationError"
             \/ \A args \in InvalidAddCalls : ~add_task(args)
          /\ (last.op = "add_task" /\ last.outcome = "ValidationError"
                 /\ last'.outcome = "ok")
             => last'.task_id = Len(issued) + 1 ]_vars

\* An add was just rejected for its description while one task is stored: the
\* counter is still 2.
C36_Witness ==
    /\ last.op = "add_task" /\ last.outcome = "ValidationError"
    /\ last.msg = "Description exceeds 500 characters"
    /\ DOMAIN tasks = {1}
    /\ next_id = 2
    /\ issued = <<1>>

\* C37: once an id has been deleted through the orchestrator, it never
\* returns to the store, however many tasks are added afterwards, and every
\* later get, update, delete, mark_complete and mark_incomplete on it fails
\* with TaskNotFoundError and changes nothing; in particular a second delete
\* of the same id fails.
C37_DeletedStaysGone ==
    [][LET deleted == {issued[n] : n \in 1..Len(issued)} \ DOMAIN tasks
       IN  /\ \A i \in deleted : ~repo_task_exists(tasks', i)
           /\ (last'.op \in IdOps /\ last'.task_id \in deleted)
              => /\ last'.outcome = "TaskNotFoundError"
                 /\ tasks' = tasks
                 /\ next_id' = next_id
           /\ (last'.op = "delete_task" /\ last'.outcome = "ok")
              => LET i == last'.task_id
                 IN  /\ delete_task(i)
                     /\ ~validate_task_id(tasks', i)
                     /\ i \in {issued'[n] : n \in 1..Len(issued')} \ DOMAIN tasks' ]_vars

\* A second delete of id 1 was just rejected, after a second task was added
\* and got id 2.
C37_Witness ==
    /\ last.op = "delete_task" /\ last.outcome = "TaskNotFoundError"
    /\ last.task_id = 1
    /\ issued = <<1, 2>>
    /\ DOMAIN tasks = {2}
    /\ next_id = 3

\* C38: in update, mark_complete and mark_incomplete the existence check
\* comes first: a call on a missing id fails with TaskNotFoundError even when
\* its title or description argument is invalid; in add and update the title
\* is validated before the description: when both are invalid the title's
\* ValidationError is the one reported.
C38_ErrorPrecedence ==
    [][/\ (last'.op = "update_task" /\ last'.task_id \notin DOMAIN tasks)
          => \/ last'.outcome = "TaskNotFoundError"
             \/ \A t \in TitleInputs \cup {NoneStr}, d \in DescInputs \cup {NoneStr} :
                   ~update_task(last'.task_id, t, d)
       /\ (last'.op \in MarkOps /\ last'.task_id \notin DOMAIN tasks)
          => /\ last'.outcome = "TaskNotFoundError"
             /\ mark_complete(last'.task_id) \/ mark_incomplete(last'.task_id)
       /\ (last'.op = "add_task")
          => \A t \in InvalidTitleInputs, d \in InvalidDescInputs :
                \/ /\ last'.outcome = "ValidationError"
                   /\ last'.msg = validate_title(t).msg
                   /\ last'.msg # validate_description(d).msg
                \/ ~add_task([title |-> t, description |-> d])
       /\ (last'.op = "update_task" /\ last'.task_id \in DOMAIN tasks)
          => \A t \in InvalidTitleInputs, d \in InvalidDescInputs :
                \/ /\ last'.outcome = "ValidationError"
                   /\ last'.msg = validate_title(t).msg
                   /\ last'.msg # validate_description(d).msg
                \/ ~update_task(last'.task_id, t, d) ]_vars

\* An update of the second of two stored tasks was just rejected for its
\* title.
C38_Witness ==
    /\ last.op = "update_task" /\ last.outcome = "ValidationError"
    /\ last.msg = "Task title exceeds 200 characters"
    /\ last.task_id = 2
    /\ DOMAIN tasks = {1, 2}

\* C39: with tasks created only through the orchestrator, in every reachable
\* state each stored task's id is at least 1, equals the key it is stored
\* under and is below next_id; no two stored tasks share an id.
C39_StoredIdsWellFormed ==
    /\ \A k \in DOMAIN tasks :
          /\ tasks[k].id >= 1
          /\ tasks[k].id = k
          /\ tasks[k].id < repo_get_next_id(next_id)
    /\ \A j, k \in DOMAIN tasks : j # k => tasks[j].id # tasks[k].id
    /\ Len(repo_get_all_tasks(tasks)) = Cardinality(ListedIds(tasks))

\* Two tasks are stored after the second add; the counter is 3.
C39_Witness ==
    /\ last.op = "add_task" /\ last.outcome = "ok" /\ last.task_id = 2
    /\ tasks[1].id = 1 /\ tasks[2].id = 2
    /\ next_id = 3

\* C40: in update only None means no change: update(id, new_description="")
\* (or a whitespace-only description) sets the stored description to the
\* empty string and returns changed = true when the stored description was
\* non-empty, whereas update(id, new_title="") fails with ValidationError and
\* leaves the title unchanged.
C40_EmptyIsAValue ==
    [][(last'.op = "update_task" /\ last'.task_id \in DOMAIN tasks)
       => LET i == last'.task_id
          IN  /\ \A d \in {<<>>, <<Sp, Tab>>} :
                    (tasks[i].description # <<>> /\ update_task(i, NoneStr, d))
                    => /\ last'.outcome = "ok"
                       /\ last'.changed
                       /\ tasks'[i].description = <<>>
                       /\ tasks' = [tasks EXCEPT ![i].description = <<>>]
              /\ update_task(i, <<>>, NoneStr)
                 => /\ last'.outcome = "ValidationError"
                    /\ last'.msg = "Task title cannot be empty"
                    /\ tasks'[i].title = tasks[i].title
                    /\ tasks' = tasks ]_vars

\* An update just emptied the description of a task and reported a change;
\* the other stored task still has its 500-character description.
C40_Witness ==
    /\ last.op = "update_task" /\ last.outcome = "ok" /\ last.changed
    /\ DOMAIN tasks = {1, 2}
    /\ tasks[last.task_id].description = <<>>
    /\ tasks[last.task_id].title = <<<<"a", 1>>>>
    /\ \E k \in DOMAIN tasks \ {last.task_id} :
          tasks[k].description = <<<<"y", MaxDescLen>>>>

\* C35: the main loop treats failures as non-fatal: whatever an action
\* raised, control returns to the menu; the loop terminates only when menu
\* choice 6 is selected; menu input outside 1-6 or non-numeric input is
\* prompted for again and never reaches an action.
C35_LoopEndsOnlyOnExit ==
    [][/\ (ui.pc = "action") => ui'.pc \in {"action", "menu"}
       /\ (ui.pc = "action" /\ last.op # "get_menu_choice") => ui'.pc = "menu"
       /\ (ui.pc = "menu" /\ ui'.pc \notin {"menu", "action"})
          => /\ ui'.pc = "exited"
             /\ last'.op = "get_menu_choice" /\ last'.task_id = 6
       /\ (ui.pc = "menu" /\ ui'.pc = "action")
          => /\ ui'.choice \in 1..5
             /\ tasks' = tasks /\ next_id' = next_id
       /\ \A line \in MenuLines :
             ( /\ line_strip(line) \notin {<<"1">>, <<"2">>, <<"3">>, <<"4">>, <<"5">>, <<"6">>}
               /\ get_menu_choice(line) )
             => /\ ui'.pc = "menu"
                /\ tasks' = tasks /\ next_id' = next_id ]_vars

===========================================================================
